---- MODULE Spec2Model ----
(***************************************************************************)
(* A model of the rust_graph toolkit: the identifier registry              *)
(* (DoubleMapping), the three storage backends of the Graph trait          *)
(* (AdjMatrixGraph, AdjListGraph, IncMatrixGraph) and a client that builds *)
(* a graph through the trait's mutation operations, and the two path       *)
(* searches (depth-first search and Dijkstra) run on a graph so built.     *)
(* Two more clients exercise the registry on its own and the three         *)
(* backends side by side under one sequence of calls.                      *)
(*                                                                         *)
(* Conventions.  Option<T> is a sequence of length at most one: None is    *)
(* <<>> and Some(x) is <<x>>.  A HashMap is a function whose DOMAIN is the *)
(* key set; a HashSet is a set; a Vec is a sequence (index i of the code   *)
(* is index i+1 here).  A usize result that wrapped below zero is kept as  *)
(* its negative two's-complement representative.  An operation that can    *)
(* panic returns [g |-> state at the panic, panic |-> TRUE].               *)
(***************************************************************************)
EXTENDS Integers, Sequences, FiniteSets, Bags, TLC

\* ------------------------------------------------------------------ bounds
\* Node values the client uses are 1..NumNodes.
NumNodes == 2
\* The client stops registering nodes once the backend's node storage
\* (nodes vector / registry slot vector) holds MaxSlots entries.
MaxSlots == 2
\* The client stops adding edges once edge_count() reports MaxEdges.
MaxEdges == 2

Nodes == 1..NumNodes

VARIABLES
    backend,          \* which implementation of Graph the client constructed
    graph,            \* the graph object (a record of the struct's fields)
    panicked,         \* TRUE once a call has unwound with a panic
    overflow_checks,  \* build profile: usize overflow panics (debug) or wraps
    call,             \* the last call made, with the client's observations before it
    run,              \* the path search in progress on the graph, if any
    mapping,          \* a DoubleMapping used on its own
    history,          \* ids the registry has handed out and taken back so far
    trio              \* one graph per backend, all given the same calls

vars == <<backend, graph, panicked, overflow_checks, call, run, mapping,
          history, trio>>

\* ------------------------------------------------------------- primitives
None == <<>>
Some(x) == <<x>>
is_some(o) == o # <<>>
unwrap(o) == o[1]

EmptyMap == [x \in {} |-> x]
MapPut(m, k, v) == [x \in (DOMAIN m) \cup {k} |-> IF x = k THEN v ELSE m[x]]
\* A removal that removes nothing.
MapRemove_Keep(m, k) == m
MapRemove(m, k) == [x \in (DOMAIN m) \ {k} |-> m[x]]

Ok(g) == [g |-> g, panic |-> FALSE]
Panic(g) == [g |-> g, panic |-> TRUE]

\* a - b on usize: panics when a < b under overflow checks, wraps otherwise.
usize_sub_panics(a, b) == a < b /\ overflow_checks
usize_sub(a, b) == a - b

\* A removal of the last element in place of element i.
vec_remove_Last(vec, i) == [k \in 1..(Len(vec) - 1) |-> vec[k]]

\* Vec::remove(i) for a 0-based index i that is in bounds.
vec_remove(vec, i) == [k \in 1..(Len(vec) - 1) |-> IF k <= i THEN vec[k] ELSE vec[k + 1]]

\* Iterator::position: 0-based index of the first element equal to item.
position(vec, item) ==
    IF \E k \in 1..Len(vec) : vec[k] = item
    THEN Some((CHOOSE k \in 1..Len(vec) :
                  vec[k] = item /\ \A j \in 1..(k - 1) : vec[j] # item) - 1)
    ELSE None

remove_from_vec(vec, item) ==
    LET i == position(vec, item)
    IN IF is_some(i) THEN [vec |-> vec_remove(vec, unwrap(i)), removed |-> TRUE]
       ELSE [vec |-> vec, removed |-> FALSE]

\* ---------------------------------------------------------- DoubleMapping
DoubleMapping_new(autodecrement) ==
    [to_index |-> EmptyMap, from_index |-> <<>>, autodecrement |-> autodecrement]

DoubleMapping_get_by_obj(m, obj) ==
    IF obj \in DOMAIN m.to_index THEN Some(m.to_index[obj]) ELSE None

\* from_index.get(id - 1): the subtraction underflows for id = 0; it panics
\* under overflow checks and otherwise wraps to an index beyond the vector.
DoubleMapping_get_by_id_panics(m, id) == usize_sub_panics(id, 1)

DoubleMapping_get_by_id(m, id) ==
    IF id >= 1 /\ id <= Len(m.from_index) THEN m.from_index[id] ELSE None

DoubleMapping_contains_id(m, id) == is_some(DoubleMapping_get_by_id(m, id))

DoubleMapping_contains_obj(m, obj) == is_some(DoubleMapping_get_by_obj(m, obj))

\* insert without the test for an object already registered.
DoubleMapping_insert_Unchecked(m, obj) ==
    LET id == Len(m.from_index) + 1
    IN [m |-> [m EXCEPT !.to_index = MapPut(@, obj, id),
                        !.from_index = Append(@, Some(obj))],
        id |-> Some(id)]

DoubleMapping_insert(m, obj) ==
    IF is_some(DoubleMapping_get_by_obj(m, obj))
    THEN [m |-> m, id |-> None]
    ELSE LET id == Len(m.from_index) + 1
         IN [m |-> [m EXCEPT !.to_index = MapPut(@, obj, id),
                             !.from_index = Append(@, Some(obj))],
             id |-> Some(id)]

\* remove without the update of the reverse index under autodecrement.
DoubleMapping_remove_StaleIndex(m, id) ==
    IF DoubleMapping_get_by_id_panics(m, id)
    THEN [m |-> m, ret |-> None, panic |-> TRUE]
    ELSE IF DoubleMapping_contains_id(m, id)
    THEN LET i == id - 1
             obj == m.from_index[i + 1]
             to1 == MapRemove(m.to_index, unwrap(obj))
         IN IF m.autodecrement
            THEN [m |-> [m EXCEPT !.from_index = vec_remove(@, i),
                                  !.to_index = to1],
                  ret |-> obj, panic |-> FALSE]
            ELSE [m |-> [m EXCEPT !.from_index[i + 1] = None, !.to_index = to1],
                  ret |-> obj, panic |-> FALSE]
    ELSE [m |-> m, ret |-> None, panic |-> FALSE]

\* remove that deletes the slot whatever the discipline.
DoubleMapping_remove_Compact(m, id) ==
    IF DoubleMapping_get_by_id_panics(m, id)
    THEN [m |-> m, ret |-> None, panic |-> TRUE]
    ELSE IF DoubleMapping_contains_id(m, id)
    THEN LET i == id - 1
             obj == m.from_index[i + 1]
             to1 == MapRemove(m.to_index, unwrap(obj))
         IN [m |-> [m EXCEPT
                      !.from_index = vec_remove(@, i),
                      !.to_index = [o \in DOMAIN to1 |->
                                      IF to1[o] > i THEN to1[o] - 1 ELSE to1[o]]],
             ret |-> obj, panic |-> FALSE]
    ELSE [m |-> m, ret |-> None, panic |-> FALSE]

DoubleMapping_remove(m, id) ==
    IF DoubleMapping_get_by_id_panics(m, id)
    THEN [m |-> m, ret |-> None, panic |-> TRUE]
    ELSE IF DoubleMapping_contains_id(m, id)
    THEN LET i == id - 1
             obj == m.from_index[i + 1]
             to1 == MapRemove(m.to_index, unwrap(obj))
         IN IF m.autodecrement
            THEN [m |-> [m EXCEPT
                           !.from_index = vec_remove(@, i),
                           !.to_index = [o \in DOMAIN to1 |->
                                           IF to1[o] > i THEN to1[o] - 1 ELSE to1[o]]],
                  ret |-> obj, panic |-> FALSE]
            ELSE [m |-> [m EXCEPT !.from_index[i + 1] = None, !.to_index = to1],
                  ret |-> obj, panic |-> FALSE]
    ELSE [m |-> m, ret |-> None, panic |-> FALSE]

\* --------------------------------------------------------- AdjMatrixGraph
\* src/src/adj_matrix.rs; src/src/graph.rs holds the same type, line for line.
AdjMatrixGraph_new == [nodes |-> <<>>, edges |-> EmptyMap, edge_count |-> 0]

AdjMatrixGraph_has_node(g, n) == \E k \in 1..Len(g.nodes) : g.nodes[k] = n

AdjMatrixGraph_has_edge(g, f, t) ==
    f \in DOMAIN g.edges /\ \E k \in 1..Len(g.edges[f]) : g.edges[f][k] = t

AdjMatrixGraph_node_count(g) == Len(g.nodes)

AdjMatrixGraph_edge_count(g) == g.edge_count

\* Pushes unconditionally; HashMap::insert replaces the value of a present key.
AdjMatrixGraph_add_node(g, n) ==
    Ok([g EXCEPT !.nodes = Append(@, n), !.edges = MapPut(@, n, <<>>)])

AdjMatrixGraph_find_or_add(g, n) ==
    IF ~AdjMatrixGraph_has_node(g, n) THEN AdjMatrixGraph_add_node(g, n).g ELSE g

AdjMatrixGraph_add_edge(g, f, t) ==
    IF AdjMatrixGraph_has_edge(g, f, t) THEN Ok(g)
    ELSE LET g1 == AdjMatrixGraph_find_or_add(g, f)
             g2 == AdjMatrixGraph_find_or_add(g1, t)
         IN IF f \in DOMAIN g2.edges
            THEN Ok([g2 EXCEPT !.edges[f] = Append(@, t), !.edge_count = @ + 1])
            ELSE Panic(g2)

AdjMatrixGraph_remove_node(g, n) ==
    IF ~AdjMatrixGraph_has_node(g, n) THEN Ok(g)
    ELSE LET g1 == [g EXCEPT !.nodes = remove_from_vec(@, n).vec]
             had == n \in DOMAIN g1.edges
             len == IF had THEN Len(g1.edges[n]) ELSE 0
             g2 == [g1 EXCEPT !.edges = MapRemove(@, n)]
             g3 == [g2 EXCEPT !.edge_count = usize_sub(@, len)]
             to_remove == Cardinality({k \in DOMAIN g3.edges :
                                          remove_from_vec(g3.edges[k], n).removed})
             g4 == [g3 EXCEPT !.edges = [k \in DOMAIN g3.edges |->
                                            remove_from_vec(g3.edges[k], n).vec]]
         IN IF had /\ usize_sub_panics(g2.edge_count, len) THEN Panic(g2)
            ELSE IF usize_sub_panics(g4.edge_count, to_remove) THEN Panic(g4)
            ELSE Ok([g4 EXCEPT !.edge_count = usize_sub(@, to_remove)])

\* remove_edge without the early return for an edge that is not present.
AdjMatrixGraph_remove_edge_Unguarded(g, f, t) ==
    IF f \notin DOMAIN g.edges THEN Panic(g)
    ELSE LET r == remove_from_vec(g.edges[f], t)
             g1 == [g EXCEPT !.edges[f] = r.vec]
         IN IF ~r.removed THEN Ok(g1)
            ELSE Ok([g1 EXCEPT !.edge_count = usize_sub(@, 1)])

AdjMatrixGraph_remove_edge(g, f, t) ==
    IF ~AdjMatrixGraph_has_edge(g, f, t) THEN Ok(g)
    ELSE LET r == remove_from_vec(g.edges[f], t)
             g1 == [g EXCEPT !.edges[f] = r.vec]
         IN IF ~r.removed THEN Ok(g1)
            ELSE IF usize_sub_panics(g1.edge_count, 1) THEN Panic(g1)
            ELSE Ok([g1 EXCEPT !.edge_count = usize_sub(@, 1)])

\* ----------------------------------------------------------- AdjListGraph
AdjListGraph_new ==
    [identifiers |-> DoubleMapping_new(FALSE), edges |-> EmptyMap, edge_count |-> 0]

AdjListGraph_has_node(g, n) == DoubleMapping_contains_obj(g.identifiers, n)

AdjListGraph_has_edge(g, f, t) ==
    LET fid == DoubleMapping_get_by_obj(g.identifiers, f)
        tid == DoubleMapping_get_by_obj(g.identifiers, t)
    IN /\ is_some(fid)
       /\ is_some(tid)
       /\ unwrap(fid) \in DOMAIN g.edges
       /\ unwrap(tid) \in g.edges[unwrap(fid)]

AdjListGraph_node_count(g) == Cardinality(DOMAIN g.edges)

AdjListGraph_edge_count(g) == g.edge_count

AdjListGraph_find_or_add(g, n) ==
    LET found == DoubleMapping_get_by_obj(g.identifiers, n)
        r == DoubleMapping_insert(g.identifiers, n)
    IN IF is_some(found) THEN [g |-> g, id |-> unwrap(found), panic |-> FALSE]
       ELSE IF ~is_some(r.id) THEN [g |-> g, id |-> 0, panic |-> TRUE]
       ELSE [g |-> [g EXCEPT !.identifiers = r.m,
                             !.edges = MapPut(@, unwrap(r.id), {})],
             id |-> unwrap(r.id), panic |-> FALSE]

AdjListGraph_add_node(g, n) ==
    LET r == AdjListGraph_find_or_add(g, n)
    IN [g |-> r.g, panic |-> r.panic]

AdjListGraph_add_edge(g, f, t) ==
    IF AdjListGraph_has_edge(g, f, t) THEN Ok(g)
    ELSE LET fr == AdjListGraph_find_or_add(g, f)
             tr == AdjListGraph_find_or_add(fr.g, t)
         IN IF fr.panic THEN Panic(fr.g)
            ELSE IF tr.panic THEN Panic(tr.g)
            ELSE IF fr.id \notin DOMAIN tr.g.edges THEN Panic(tr.g)
            ELSE Ok([tr.g EXCEPT !.edges[fr.id] = @ \cup {tr.id},
                                 !.edge_count = @ + 1])

\* remove_node that subtracts the removed node's out-edges only.
AdjListGraph_remove_node_OutOnly(g, n) ==
    IF ~AdjListGraph_has_node(g, n) THEN Ok(g)
    ELSE LET id == unwrap(DoubleMapping_get_by_obj(g.identifiers, n))
             rm == DoubleMapping_remove(g.identifiers, id)
             len == IF id \in DOMAIN g.edges THEN Cardinality(g.edges[id]) ELSE 0
             e1 == MapRemove(g.edges, id)
         IN Ok([g EXCEPT !.identifiers = rm.m,
                         !.edges = [k \in DOMAIN e1 |-> e1[k] \ {id}],
                         !.edge_count = usize_sub(@, len)])

\* remove_node that leaves the removed id in the other nodes' neighbour sets.
AdjListGraph_remove_node_Dangling(g, n) ==
    IF ~AdjListGraph_has_node(g, n) THEN Ok(g)
    ELSE LET id == unwrap(DoubleMapping_get_by_obj(g.identifiers, n))
             rm == DoubleMapping_remove(g.identifiers, id)
             len == IF id \in DOMAIN g.edges THEN Cardinality(g.edges[id]) ELSE 0
         IN Ok([g EXCEPT !.identifiers = rm.m,
                         !.edges = MapRemove(@, id),
                         !.edge_count = usize_sub(@, len)])

AdjListGraph_remove_node(g, n) ==
    IF ~AdjListGraph_has_node(g, n) THEN Ok(g)
    ELSE LET id == unwrap(DoubleMapping_get_by_obj(g.identifiers, n))
             rm == DoubleMapping_remove(g.identifiers, id)
             g1 == [g EXCEPT !.identifiers = rm.m]
             had == id \in DOMAIN g1.edges
             len == IF had THEN Cardinality(g1.edges[id]) ELSE 0
             g2 == [g1 EXCEPT !.edges = MapRemove(@, id)]
             g3 == [g2 EXCEPT !.edge_count = usize_sub(@, len)]
             to_remove == Cardinality({k \in DOMAIN g3.edges : id \in g3.edges[k]})
             g4 == [g3 EXCEPT !.edges = [k \in DOMAIN g3.edges |-> g3.edges[k] \ {id}]]
         IN IF rm.panic THEN Panic(g)
            ELSE IF had /\ usize_sub_panics(g2.edge_count, len) THEN Panic(g2)
            ELSE IF usize_sub_panics(g4.edge_count, to_remove) THEN Panic(g4)
            ELSE Ok([g4 EXCEPT !.edge_count = usize_sub(@, to_remove)])

\* remove_edge that looks the edge up with its ends swapped.
AdjListGraph_remove_edge_Swapped(g, f, t) ==
    IF ~AdjListGraph_has_edge(g, f, t) THEN Ok(g)
    ELSE LET fid == unwrap(DoubleMapping_get_by_obj(g.identifiers, f))
             tid == unwrap(DoubleMapping_get_by_obj(g.identifiers, t))
             removed == fid \in g.edges[tid]
             g1 == [g EXCEPT !.edges[tid] = @ \ {fid}]
         IN IF ~removed THEN Ok(g1)
            ELSE Ok([g1 EXCEPT !.edge_count = usize_sub(@, 1)])

AdjListGraph_remove_edge(g, f, t) ==
    IF ~AdjListGraph_has_edge(g, f, t) THEN Ok(g)
    ELSE LET fid == unwrap(DoubleMapping_get_by_obj(g.identifiers, f))
             tid == unwrap(DoubleMapping_get_by_obj(g.identifiers, t))
             removed == tid \in g.edges[fid]
             g1 == [g EXCEPT !.edges[fid] = @ \ {tid}]
         IN IF ~removed THEN Ok(g1)
            ELSE IF usize_sub_panics(g1.edge_count, 1) THEN Panic(g1)
            ELSE Ok([g1 EXCEPT !.edge_count = usize_sub(@, 1)])

\* --------------------------------------------------------- IncMatrixGraph
IncMatrixGraph_new ==
    [identifiers |-> DoubleMapping_new(TRUE), edge_count |-> 0, matrix |-> <<>>]

\* matrix[r][c] for 0-based r and c indexes inside the vectors
matrix_in_bounds(matrix, r, c) ==
    /\ r >= 0 /\ r < Len(matrix)
    /\ c >= 0 /\ c < Len(matrix[r + 1])

IncMatrixGraph_has_node(g, n) == DoubleMapping_contains_obj(g.identifiers, n)

\* has_edge indexes the matrix without a bounds test of its own
IncMatrixGraph_has_edge_panics(g, f, t) ==
    LET i_f == DoubleMapping_get_by_obj(g.identifiers, f)
        i_t == DoubleMapping_get_by_obj(g.identifiers, t)
    IN /\ is_some(i_f)
       /\ is_some(i_t)
       /\ ~matrix_in_bounds(g.matrix, unwrap(i_f) - 1, unwrap(i_t) - 1)

IncMatrixGraph_has_edge(g, f, t) ==
    LET i_f == DoubleMapping_get_by_obj(g.identifiers, f)
        i_t == DoubleMapping_get_by_obj(g.identifiers, t)
    IN /\ is_some(i_f)
       /\ is_some(i_t)
       /\ matrix_in_bounds(g.matrix, unwrap(i_f) - 1, unwrap(i_t) - 1)
       /\ g.matrix[unwrap(i_f)][unwrap(i_t)]

IncMatrixGraph_node_count(g) == Len(g.matrix)

IncMatrixGraph_edge_count(g) == g.edge_count

\* add_node that adds the new row and leaves the old rows at their length.
IncMatrixGraph_add_node_NoColumn(g, n) ==
    LET r == DoubleMapping_insert(g.identifiers, n)
        len == Len(g.matrix)
    IN IF ~is_some(r.id) THEN Panic(g)
       ELSE Ok([g EXCEPT !.identifiers = r.m,
                         !.matrix = Append(@, [j \in 1..(len + 1) |-> FALSE])])

IncMatrixGraph_add_node(g, n) ==
    LET r == DoubleMapping_insert(g.identifiers, n)
        len == Len(g.matrix)
    IN IF ~is_some(r.id) THEN Panic(g)
       ELSE Ok([g EXCEPT !.identifiers = r.m,
                         !.matrix = [k \in 1..(len + 1) |->
                                       IF k <= len THEN Append(g.matrix[k], FALSE)
                                       ELSE [j \in 1..(len + 1) |-> FALSE]]])

IncMatrixGraph_find_or_add(g, n) ==
    LET found == DoubleMapping_get_by_obj(g.identifiers, n)
        r == IncMatrixGraph_add_node(g, n)
    IN IF is_some(found) THEN [g |-> g, i |-> unwrap(found) - 1, panic |-> FALSE]
       ELSE [g |-> r.g, i |-> Len(r.g.matrix) - 1, panic |-> r.panic]

\* add_edge without the early return for an edge that is already present.
IncMatrixGraph_add_edge_Unguarded(g, f, t) ==
    LET i_f == IncMatrixGraph_find_or_add(g, f)
        i_t == IncMatrixGraph_find_or_add(i_f.g, t)
    IN IF i_f.panic THEN Panic(i_f.g)
       ELSE IF i_t.panic THEN Panic(i_t.g)
       ELSE IF ~matrix_in_bounds(i_t.g.matrix, i_f.i, i_t.i) THEN Panic(i_t.g)
       ELSE Ok([i_t.g EXCEPT !.matrix[i_f.i + 1][i_t.i + 1] = TRUE,
                             !.edge_count = @ + 1])

IncMatrixGraph_add_edge(g, f, t) ==
    IF IncMatrixGraph_has_edge_panics(g, f, t) THEN Panic(g)
    ELSE IF IncMatrixGraph_has_edge(g, f, t) THEN Ok(g)
    ELSE LET i_f == IncMatrixGraph_find_or_add(g, f)
             i_t == IncMatrixGraph_find_or_add(i_f.g, t)
         IN IF i_f.panic THEN Panic(i_f.g)
            ELSE IF i_t.panic THEN Panic(i_t.g)
            ELSE IF ~matrix_in_bounds(i_t.g.matrix, i_f.i, i_t.i) THEN Panic(i_t.g)
            ELSE Ok([i_t.g EXCEPT !.matrix[i_f.i + 1][i_t.i + 1] = TRUE,
                                  !.edge_count = @ + 1])

\* The loop of remove_node over the remaining rows, from row k (1-based) on:
\* each row loses column i (0-based) and a true cell there costs one edge.
RECURSIVE strip_column(_, _, _, _)
strip_column(matrix, i, k, ec) ==
    IF k > Len(matrix)
    THEN [matrix |-> matrix, edge_count |-> ec, panic |-> FALSE]
    ELSE LET v == matrix[k]
         IN IF i >= Len(v)
            THEN [matrix |-> matrix, edge_count |-> ec, panic |-> TRUE]
            ELSE IF v[i + 1] /\ usize_sub_panics(ec, 1)
            THEN [matrix |-> matrix, edge_count |-> ec, panic |-> TRUE]
            ELSE strip_column([matrix EXCEPT ![k] = vec_remove(v, i)], i, k + 1,
                              IF v[i + 1] THEN usize_sub(ec, 1) ELSE ec)

\* remove_node that deletes the node's row and leaves its column in place.
IncMatrixGraph_remove_node_RowOnly(g, n) ==
    LET found == DoubleMapping_get_by_obj(g.identifiers, n)
    IN IF ~is_some(found) THEN Ok(g)
       ELSE LET rm == DoubleMapping_remove(g.identifiers, unwrap(found))
                g1 == [g EXCEPT !.identifiers = rm.m]
                i == unwrap(found) - 1
                row == g1.matrix[i + 1]
                g2 == [g1 EXCEPT !.matrix = vec_remove(@, i)]
                cnt == Cardinality({k \in 1..Len(row) : row[k]})
                g3 == [g2 EXCEPT !.edge_count = usize_sub(@, cnt)]
            IN IF rm.panic \/ ~is_some(rm.ret) THEN Panic(g1)
               ELSE IF i < 0 \/ i >= Len(g1.matrix) THEN Panic(g1)
               ELSE IF usize_sub_panics(g2.edge_count, cnt) THEN Panic(g2)
               ELSE Ok(g3)

IncMatrixGraph_remove_node(g, n) ==
    LET found == DoubleMapping_get_by_obj(g.identifiers, n)
    IN IF ~is_some(found) THEN Ok(g)
       ELSE LET rm == DoubleMapping_remove(g.identifiers, unwrap(found))
                g1 == [g EXCEPT !.identifiers = rm.m]
                i == unwrap(found) - 1
                row == g1.matrix[i + 1]
                g2 == [g1 EXCEPT !.matrix = vec_remove(@, i)]
                cnt == Cardinality({k \in 1..Len(row) : row[k]})
                g3 == [g2 EXCEPT !.edge_count = usize_sub(@, cnt)]
                s == strip_column(g3.matrix, i, 1, g3.edge_count)
            IN IF rm.panic \/ ~is_some(rm.ret) THEN Panic(g1)
               ELSE IF i < 0 \/ i >= Len(g1.matrix) THEN Panic(g1)
               ELSE IF usize_sub_panics(g2.edge_count, cnt) THEN Panic(g2)
               ELSE [g |-> [g3 EXCEPT !.matrix = s.matrix, !.edge_count = s.edge_count],
                     panic |-> s.panic]

IncMatrixGraph_remove_edge(g, f, t) ==
    IF IncMatrixGraph_has_edge_panics(g, f, t) THEN Panic(g)
    ELSE IF ~IncMatrixGraph_has_edge(g, f, t) THEN Ok(g)
    ELSE LET i_f == unwrap(DoubleMapping_get_by_obj(g.identifiers, f))
             i_t == unwrap(DoubleMapping_get_by_obj(g.identifiers, t))
             g1 == [g EXCEPT !.matrix[i_f][i_t] = FALSE]
         IN IF usize_sub_panics(g1.edge_count, 1) THEN Panic(g1)
            ELSE Ok([g1 EXCEPT !.edge_count = usize_sub(@, 1)])

\* -------------------------------------------------------------- iterators
\* What draining an iterator gives: some is FALSE for an absent (None) result,
\* items are the elements yielded, in order, before the iterator is exhausted
\* or panics, and panic tells that the call or the draining panicked.  Every
\* iterator operator returns the set of outcomes the build can produce: one
\* per iteration order of the HashMap or HashSet it walks.
Yield(items) == [some |-> TRUE, items |-> items, panic |-> FALSE]
Absent == [some |-> FALSE, items |-> <<>>, panic |-> FALSE]
CallPanics == [some |-> FALSE, items |-> <<>>, panic |-> TRUE]

\* The orders in which a hash collection can yield the elements of S.
Orders(S) ==
    {s \in [1..Cardinality(S) -> S] : \A i, j \in DOMAIN s : i # j => s[i] # s[j]}

\* .map(|v| m.get_by_id(v).unwrap()) over the ids in the order given: the
\* first id whose lookup panics or finds nothing ends the draining.
map_get_by_id(m, ids) ==
    LET bad == {k \in 1..Len(ids) :
                   \/ DoubleMapping_get_by_id_panics(m, ids[k])
                   \/ ~DoubleMapping_contains_id(m, ids[k])}
        n == IF bad = {} THEN Len(ids)
             ELSE (CHOOSE k \in bad : \A j \in bad : k <= j) - 1
    IN [some |-> TRUE,
        items |-> [k \in 1..n |-> unwrap(DoubleMapping_get_by_id(m, ids[k]))],
        panic |-> bad # {}]

\* .flat_map over inner iterators whose outcomes are outs, in that order.
RECURSIVE flat_map(_)
flat_map(outs) ==
    IF outs = <<>> THEN Yield(<<>>)
    ELSE IF Head(outs).panic
    THEN [some |-> TRUE, items |-> Head(outs).items, panic |-> TRUE]
    ELSE LET r == flat_map(Tail(outs))
         IN [some |-> TRUE, items |-> Head(outs).items \o r.items, panic |-> r.panic]

\* inner[k] being the outcomes the inner iterator of key k can have: one of
\* them chosen for every key, the keys taken in every order.
flat_map_orders(inner) ==
    LET keys == DOMAIN inner
    IN UNION {{flat_map([i \in 1..Len(ks) |-> pick[ks[i]]]) :
                  pick \in {p \in [keys -> UNION {inner[k] : k \in keys}] :
                               \A k \in keys : p[k] \in inner[k]}} :
              ks \in Orders(keys)}

\* .map(move |t| (f, t)) on an outcome
pair_with(f, out) == [out EXCEPT !.items = [k \in DOMAIN out.items |-> <<f, out.items[k]>>]]

AdjMatrixGraph_iter_nodes(g) == {Yield(g.nodes)}

AdjMatrixGraph_iter_adj(g, n) ==
    IF n \in DOMAIN g.edges THEN {Yield(g.edges[n])} ELSE {Absent}

AdjMatrixGraph_iter_edges(g) ==
    flat_map_orders([k \in DOMAIN g.edges |-> {pair_with(k, Yield(g.edges[k]))}])

AdjListGraph_iter_nodes(g) ==
    {map_get_by_id(g.identifiers, ids) : ids \in Orders(DOMAIN g.edges)}

\* get_by_obj(n).unwrap() comes before the lookup in edges.
AdjListGraph_iter_adj(g, n) ==
    LET id == DoubleMapping_get_by_obj(g.identifiers, n)
    IN IF ~is_some(id) THEN {CallPanics}
       ELSE IF unwrap(id) \notin DOMAIN g.edges THEN {Absent}
       ELSE {map_get_by_id(g.identifiers, ids) : ids \in Orders(g.edges[unwrap(id)])}

\* The closure looks up k once per neighbour, then the neighbour.
AdjListGraph_iter_edges(g) ==
    LET m == g.identifiers
        source_fails(k) ==
            DoubleMapping_get_by_id_panics(m, k) \/ ~DoubleMapping_contains_id(m, k)
    IN flat_map_orders([k \in DOMAIN g.edges |->
           IF source_fails(k)
           THEN {[some |-> TRUE, items |-> <<>>, panic |-> g.edges[k] # {}]}
           ELSE {pair_with(unwrap(DoubleMapping_get_by_id(m, k)), map_get_by_id(m, ids)) :
                    ids \in Orders(g.edges[k])}])

IncMatrixGraph_iter_nodes(g) ==
    {Yield(objs) : objs \in Orders(DOMAIN g.identifiers.to_index)}

\* The 0-based columns j of a row whose cell is true, ascending (enumerate).
true_columns(row) ==
    LET js == {j \in 0..(Len(row) - 1) : row[j + 1]}
    IN CHOOSE s \in Orders(js) : \A a, b \in DOMAIN s : a < b => s[a] < s[b]

\* The closure hands the enumerate index j itself to get_by_id.
IncMatrixGraph_iter_adj(g, n) ==
    LET i == DoubleMapping_get_by_obj(g.identifiers, n)
    IN IF ~is_some(i) THEN {Absent}
       ELSE IF unwrap(i) - 1 >= Len(g.matrix) THEN {CallPanics}
       ELSE {map_get_by_id(g.identifiers, true_columns(g.matrix[unwrap(i)]))}

\* iter_adj(f).unwrap() for every registered f.
IncMatrixGraph_iter_edges(g) ==
    flat_map_orders([f \in DOMAIN g.identifiers.to_index |->
                        {pair_with(f, out) : out \in IncMatrixGraph_iter_adj(g, f)}])

\* ------------------------------------------------------------ trait Graph
\* A call through the trait, dispatched on the implementing type b.
Backends == {"AdjListGraph", "AdjMatrixGraph", "IncMatrixGraph"}

new(b) ==
    CASE b = "AdjListGraph" -> AdjListGraph_new
      [] b = "AdjMatrixGraph" -> AdjMatrixGraph_new
      [] b = "IncMatrixGraph" -> IncMatrixGraph_new

add_node(b, g, n) ==
    CASE b = "AdjListGraph" -> AdjListGraph_add_node(g, n)
      [] b = "AdjMatrixGraph" -> AdjMatrixGraph_add_node(g, n)
      [] b = "IncMatrixGraph" -> IncMatrixGraph_add_node(g, n)

add_edge(b, g, f, t) ==
    CASE b = "AdjListGraph" -> AdjListGraph_add_edge(g, f, t)
      [] b = "AdjMatrixGraph" -> AdjMatrixGraph_add_edge(g, f, t)
      [] b = "IncMatrixGraph" -> IncMatrixGraph_add_edge(g, f, t)

remove_node(b, g, n) ==
    CASE b = "AdjListGraph" -> AdjListGraph_remove_node(g, n)
      [] b = "AdjMatrixGraph" -> AdjMatrixGraph_remove_node(g, n)
      [] b = "IncMatrixGraph" -> IncMatrixGraph_remove_node(g, n)

remove_edge(b, g, f, t) ==
    CASE b = "AdjListGraph" -> AdjListGraph_remove_edge(g, f, t)
      [] b = "AdjMatrixGraph" -> AdjMatrixGraph_remove_edge(g, f, t)
      [] b = "IncMatrixGraph" -> IncMatrixGraph_remove_edge(g, f, t)

has_node(b, g, n) ==
    CASE b = "AdjListGraph" -> AdjListGraph_has_node(g, n)
      [] b = "AdjMatrixGraph" -> AdjMatrixGraph_has_node(g, n)
      [] b = "IncMatrixGraph" -> IncMatrixGraph_has_node(g, n)

has_edge(b, g, f, t) ==
    CASE b = "AdjListGraph" -> AdjListGraph_has_edge(g, f, t)
      [] b = "AdjMatrixGraph" -> AdjMatrixGraph_has_edge(g, f, t)
      [] b = "IncMatrixGraph" -> IncMatrixGraph_has_edge(g, f, t)

node_count(b, g) ==
    CASE b = "AdjListGraph" -> AdjListGraph_node_count(g)
      [] b = "AdjMatrixGraph" -> AdjMatrixGraph_node_count(g)
      [] b = "IncMatrixGraph" -> IncMatrixGraph_node_count(g)

edge_count(b, g) ==
    CASE b = "AdjListGraph" -> AdjListGraph_edge_count(g)
      [] b = "AdjMatrixGraph" -> AdjMatrixGraph_edge_count(g)
      [] b = "IncMatrixGraph" -> IncMatrixGraph_edge_count(g)

iter_nodes(b, g) ==
    CASE b = "AdjListGraph" -> AdjListGraph_iter_nodes(g)
      [] b = "AdjMatrixGraph" -> AdjMatrixGraph_iter_nodes(g)
      [] b = "IncMatrixGraph" -> IncMatrixGraph_iter_nodes(g)

iter_adj(b, g, n) ==
    CASE b = "AdjListGraph" -> AdjListGraph_iter_adj(g, n)
      [] b = "AdjMatrixGraph" -> AdjMatrixGraph_iter_adj(g, n)
      [] b = "IncMatrixGraph" -> IncMatrixGraph_iter_adj(g, n)

iter_edges(b, g) ==
    CASE b = "AdjListGraph" -> AdjListGraph_iter_edges(g)
      [] b = "AdjMatrixGraph" -> AdjMatrixGraph_iter_edges(g)
      [] b = "IncMatrixGraph" -> IncMatrixGraph_iter_edges(g)

\* ----------------------------------------------------------------- client
\* What the contract's queries show of a graph.
NodeSet(b, g) == {n \in Nodes : has_node(b, g, n)}
EdgeSet(b, g) == {e \in Nodes \X Nodes : has_edge(b, g, e[1], e[2])}

\* Entries held by the backend's node storage (grows with every registration).
Slots(b, g) ==
    IF b = "AdjMatrixGraph" THEN Len(g.nodes) ELSE Len(g.identifiers.from_index)

\* n is the live node whose registration is the most recent one.
IsLastRegistered(b, g, n) ==
    IF b = "AdjMatrixGraph"
    THEN Len(g.nodes) > 0 /\ g.nodes[Len(g.nodes)] = n
    ELSE /\ n \in DOMAIN g.identifiers.to_index
         /\ \A o \in DOMAIN g.identifiers.to_index :
               g.identifiers.to_index[o] <= g.identifiers.to_index[n]

\* No path search has been started.
NoRun == [alg |-> "none"]

\* No id handed out or taken back yet; no backends side by side.
NoHistory == [issued |-> {}, removed |-> {}]
NoTrio == <<>>

\* The call about to be made and what the client sees just before it.
Observe(op, f, t) ==
    [op |-> op, f |-> f, t |-> t,
     had_f |-> has_node(backend, graph, f),
     had_edge |-> has_edge(backend, graph, f, t),
     was_last |-> IsLastRegistered(backend, graph, f)]

Init ==
    /\ backend \in Backends
    /\ graph = new(backend)
    /\ panicked = FALSE
    /\ overflow_checks \in BOOLEAN
    /\ call = [op |-> "new", f |-> 0, t |-> 0, had_f |-> FALSE,
               had_edge |-> FALSE, was_last |-> FALSE]
    /\ run = NoRun
    /\ mapping = DoubleMapping_new(FALSE)
    /\ history = NoHistory
    /\ trio = NoTrio

Returns(r) ==
    /\ graph' = r.g
    /\ panicked' = r.panic
    /\ UNCHANGED <<backend, overflow_checks, run, mapping, history, trio>>

AddNode ==
    \E n \in Nodes :
        /\ ~panicked
        /\ Slots(backend, graph) < MaxSlots
        /\ call' = Observe("add_node", n, n)
        /\ Returns(add_node(backend, graph, n))

AddEdge ==
    \E f \in Nodes, t \in Nodes :
        /\ ~panicked
        /\ Slots(backend, graph)
             + Cardinality({n \in {f, t} : ~has_node(backend, graph, n)}) <= MaxSlots
        /\ edge_count(backend, graph) < MaxEdges
        /\ call' = Observe("add_edge", f, t)
        /\ Returns(add_edge(backend, graph, f, t))

RemoveNode ==
    \E n \in Nodes :
        /\ ~panicked
        /\ call' = Observe("remove_node", n, n)
        /\ Returns(remove_node(backend, graph, n))

RemoveEdge ==
    \E f \in Nodes, t \in Nodes :
        /\ ~panicked
        /\ call' = Observe("remove_edge", f, t)
        /\ Returns(remove_edge(backend, graph, f, t))

Next == AddNode \/ AddEdge \/ RemoveNode \/ RemoveEdge

Spec == Init /\ [][Next]_vars

\* ----------------------------------------------------------------- claims
NC == node_count(backend, graph)
EC == edge_count(backend, graph)
NS == NodeSet(backend, graph)
ES == EdgeSet(backend, graph)

\* Edges of the edge set e that have n as source or as target.
Incident(e, n) == {p \in e : p[1] = n \/ p[2] = n}

\* Number of true cells of a boolean matrix.
TrueCells(matrix) ==
    Cardinality({p \in (1..Len(matrix)) \X (1..Len(matrix)) :
                    p[2] <= Len(matrix[p[1]]) /\ matrix[p[1]][p[2]]})

\* C1: in AdjMatrixGraph, after any sequence of completed calls, edge_count()
\* equals the number of ordered pairs (f,t) with has_edge(f,t).
C1_EdgeCountAdjMatrix ==
    (backend = "AdjMatrixGraph" /\ ~panicked) => EC = Cardinality(ES)

\* C2: in AdjListGraph, after any sequence of calls, edge_count() equals the
\* number of ordered pairs (f,t) with has_edge(f,t).
C2_EdgeCountAdjList ==
    backend = "AdjListGraph" => EC = Cardinality(ES)

\* A node registered after an earlier removal left a gap in the registry,
\* with a self-loop present and counted.
C2_Witness ==
    /\ backend = "AdjListGraph"
    /\ ~panicked
    /\ \E i \in 1..Len(graph.identifiers.from_index) :
          /\ graph.identifiers.from_index[i] = None
          /\ \E j \in (i + 1)..Len(graph.identifiers.from_index) :
                graph.identifiers.from_index[j] # None
    /\ \E n \in Nodes : has_edge(backend, graph, n, n)
    /\ EC >= 1

\* C3: in IncMatrixGraph, after any sequence of calls, edge_count() equals the
\* number of true cells of the matrix and the number of pairs with has_edge.
C3_EdgeCountIncMatrix ==
    backend = "IncMatrixGraph" =>
        /\ EC = TrueCells(graph.matrix)
        /\ EC = Cardinality(ES)

\* remove_node has just removed a node that was not the last one registered,
\* and a node with a self-loop is left.
C3_Witness ==
    /\ backend = "IncMatrixGraph"
    /\ ~panicked
    /\ call.op = "remove_node" /\ call.had_f /\ ~call.was_last
    /\ \E n \in Nodes : has_edge(backend, graph, n, n)
    /\ EC >= 1

\* C4: in every backend, after any sequence of completed calls, node_count()
\* equals the number of distinct node values n with has_node(n).
C4_NodeCount == ~panicked => NC = Cardinality(NS)

\* C5: add_node(n) for a node that is already registered completes and changes
\* neither node_count, edge_count, the node set nor the edge set.
C5_AddNodeIdempotent ==
    [][(call'.op = "add_node" /\ call'.had_f) =>
          /\ ~panicked'
          /\ NC' = NC /\ EC' = EC /\ NS' = NS /\ ES' = ES]_vars

\* C6: add_edge(f,t) completes in every reachable state; afterwards f and t are
\* registered, the edge is present, and node_count has grown by the number of
\* distinct endpoints that were not registered before.
C6_AddEdgeRegisters ==
    [][call'.op = "add_edge" =>
          /\ ~panicked'
          /\ has_node(backend', graph', call'.f)
          /\ has_node(backend', graph', call'.t)
          /\ has_edge(backend', graph', call'.f, call'.t)
          /\ NC' = NC + Cardinality({call'.f, call'.t} \ NS)]_vars

\* C7: add_edge(f,t) raises edge_count by exactly 1 when the edge was absent and
\* leaves edge_count and the edge set unchanged when it was present.
C7_AddEdgeCounts ==
    [][call'.op = "add_edge" =>
          IF call'.had_edge
          THEN EC' = EC /\ ES' = ES
          ELSE EC' = EC + 1]_vars

\* C8: remove_edge(f,t) of a present edge makes has_edge(f,t) false, lowers
\* edge_count by exactly 1 and leaves node_count, the registration of f and t
\* and every other edge unchanged.
C8_RemoveEdge ==
    [][(call'.op = "remove_edge" /\ call'.had_edge) =>
          /\ ~panicked'
          /\ ~has_edge(backend', graph', call'.f, call'.t)
          /\ EC' = EC - 1
          /\ NC' = NC
          /\ NS' = NS
          /\ ES' = ES \ {<<call'.f, call'.t>>}]_vars

\* remove_edge has just removed a present edge and another edge is left.
C8_Witness ==
    /\ ~panicked
    /\ call.op = "remove_edge" /\ call.had_edge
    /\ ~has_edge(backend, graph, call.f, call.t)
    /\ EC >= 1

\* C9: remove_node(n) of a registered node makes has_node(n) false, lowers
\* node_count by exactly 1, leaves no edge from or to n, and lowers edge_count
\* by the number of edges that had n as source or target.
C9_RemoveNode ==
    [][(call'.op = "remove_node" /\ call'.had_f) =>
          /\ ~panicked'
          /\ ~has_node(backend', graph', call'.f)
          /\ NC' = NC - 1
          /\ Incident(ES', call'.f) = {}
          /\ EC' = EC - Cardinality(Incident(ES, call'.f))]_vars

\* C10: remove_node of an unregistered node and remove_edge of an absent edge
\* complete and leave node_count, edge_count, the node set and the edge set
\* unchanged.
C10_RemoveAbsent ==
    [][(\/ call'.op = "remove_node" /\ ~call'.had_f
        \/ call'.op = "remove_edge" /\ ~call'.had_edge) =>
          /\ ~panicked'
          /\ NC' = NC /\ EC' = EC /\ NS' = NS /\ ES' = ES]_vars

\* remove_edge was just called with an unregistered source on a graph that
\* holds a node and an edge.
C10_Witness ==
    /\ ~panicked
    /\ call.op = "remove_edge" /\ ~call.had_edge /\ ~call.had_f
    /\ NC >= 1 /\ EC >= 1

\* The out-neighbours of n that has_edge shows.
OutNeighbours(b, g, n) == {t \in Nodes : has_edge(b, g, n, t)}

\* C11: in every backend, iter_adj(n) of an unregistered node returns None
\* without failing, and iter_adj(n) of a registered node without out-edges
\* returns a present, empty sequence.
C11_IterAdjAbsent ==
    ~panicked =>
        \A n \in Nodes : \A out \in iter_adj(backend, graph, n) :
            /\ ~has_node(backend, graph, n) => (~out.panic /\ ~out.some)
            /\ (has_node(backend, graph, n) /\ OutNeighbours(backend, graph, n) = {}) =>
                   (~out.panic /\ out.some /\ out.items = <<>>)

\* The set of elements of a sequence, and whether it repeats none.
Range(s) == {s[k] : k \in DOMAIN s}
NoRepeat(s) == \A i, j \in DOMAIN s : i # j => s[i] # s[j]

\* C12: in every backend and every reachable state, iter_adj(n) of a registered
\* node completes and yields each out-neighbour of n exactly once and nothing
\* else.
C12_IterAdjNeighbours ==
    ~panicked =>
        \A n \in Nodes : \A out \in iter_adj(backend, graph, n) :
            has_node(backend, graph, n) =>
                /\ ~out.panic
                /\ out.some
                /\ NoRepeat(out.items)
                /\ Range(out.items) = OutNeighbours(backend, graph, n)

\* C13: in every backend and every reachable state, iter_nodes() yields each
\* registered node exactly once and nothing else, node_count() items in all,
\* and iter_edges() yields each pair (f,t) with has_edge(f,t) exactly once and
\* nothing else, edge_count() items in all.
C13_IterNodesEdges ==
    ~panicked =>
        /\ \A out \in iter_nodes(backend, graph) :
              /\ ~out.panic
              /\ NoRepeat(out.items)
              /\ Range(out.items) = NS
              /\ Len(out.items) = NC
        /\ \A out \in iter_edges(backend, graph) :
              /\ ~out.panic
              /\ NoRepeat(out.items)
              /\ Range(out.items) = ES
              /\ Len(out.items) = EC

\* ------------------------------------------------------------ path searches
\* Node values of the graphs the searches run on, and the number of edges the
\* builder adds at most.
PathNodes == 3
PathEdges == 3

AlgNodes == 1..PathNodes

\* The functions of src/src/utils.rs and the structs of
\* rust_graph_lib/src/algorithms.  The first are compiled against the crate
\* whose only Graph is AdjMatrixGraph.
Variants == {"utils", "algorithms"}
Compiles(v, b) == v = "utils" => b = "AdjMatrixGraph"

\* A step of a search: the search record it leaves and whether it panicked.
Continue(x) ==
    /\ run' = x.r
    /\ panicked' = x.panic
    /\ UNCHANGED <<backend, graph, overflow_checks, call, mapping, history, trio>>

\* build_graph: add_node(1), ..., add_node(n) first, then edges between these
\* nodes.
BuildNode ==
    /\ run = NoRun
    /\ ~panicked
    /\ edge_count(backend, graph) = 0
    /\ node_count(backend, graph) < PathNodes
    /\ Returns(add_node(backend, graph, node_count(backend, graph) + 1))
    /\ UNCHANGED call

BuildEdge ==
    \E f \in AlgNodes, t \in AlgNodes :
        /\ run = NoRun
        /\ ~panicked
        /\ edge_count(backend, graph) < PathEdges
        /\ has_node(backend, graph, f)
        /\ has_node(backend, graph, t)
        /\ Returns(add_edge(backend, graph, f, t))
        /\ UNCHANGED call

\* -------------------------------------------------------------------- DFS
\* visited and cur are the search's set and stack.  frames holds, for every
\* call of inner_dfs that is inside its loop, what its neighbour iterator has
\* still to give.  expanded lists the nodes in the order in which they were
\* put into visited and had their neighbours requested.
dfs_new(v, from, to) ==
    [alg |-> "dfs", variant |-> v, from |-> from, to |-> to,
     visited |-> {}, cur |-> <<>>, frames |-> <<>>, expanded |-> <<>>,
     done |-> FALSE, result |-> None]

\* The tail of run / dfs: a stack shorter than 2 gives None.
dfs_finish(r) ==
    [r EXCEPT !.frames = <<>>, !.done = TRUE,
              !.result = IF Len(r.cur) >= 2 THEN Some(r.cur) ELSE None]

\* A call of inner_dfs returned false, r.frames being the calls still open:
\* its caller pops the stack and goes on; without a caller the search ends.
dfs_return_false(r) ==
    IF r.frames = <<>> THEN dfs_finish(r)
    ELSE [r EXCEPT !.cur = SubSeq(@, 1, Len(@) - 1)]

\* inner_dfs that never puts the node into visited.
inner_dfs_Unmarked(r, out) ==
    LET from == r.cur[Len(r.cur)]
        open == [r EXCEPT !.expanded = Append(@, from),
                          !.frames = Append(@, [items |-> out.items,
                                                panic |-> out.panic])]
    IN IF from = r.to THEN [r |-> dfs_finish(r), panic |-> FALSE]
       ELSE IF out.panic /\ ~out.some THEN [r |-> r, panic |-> TRUE]
       ELSE IF r.variant = "utils" /\ ~out.some
       THEN [r |-> dfs_return_false(r), panic |-> FALSE]
       ELSE [r |-> open, panic |-> FALSE]

\* inner_dfs from its entry to its loop, out being what iter_adj gives for
\* the top of the stack.  Returning true ends every open call.
inner_dfs(r, out) ==
    LET from == r.cur[Len(r.cur)]
        open == [r EXCEPT !.visited = @ \cup {from},
                          !.expanded = Append(@, from),
                          !.frames = Append(@, [items |-> out.items,
                                                panic |-> out.panic])]
    IN IF from = r.to THEN [r |-> dfs_finish(r), panic |-> FALSE]
       ELSE IF r.variant = "utils"
       THEN IF out.panic /\ ~out.some THEN [r |-> r, panic |-> TRUE]
            ELSE IF out.some THEN [r |-> open, panic |-> FALSE]
            ELSE [r |-> dfs_return_false(r), panic |-> FALSE]
       ELSE IF out.panic /\ ~out.some
            THEN [r |-> [r EXCEPT !.visited = @ \cup {from}], panic |-> TRUE]
            ELSE [r |-> open, panic |-> FALSE]

\* run(from, to) / dfs(g, from, to) up to the loop of the first inner_dfs.
DfsRun ==
    \E v \in Variants, from \in AlgNodes, to \in AlgNodes :
        /\ run = NoRun
        /\ ~panicked
        /\ Compiles(v, backend)
        /\ IF has_node(backend, graph, from) /\ has_node(backend, graph, to)
           THEN \E out \in iter_adj(backend, graph, from) :
                   Continue(inner_dfs([dfs_new(v, from, to) EXCEPT !.cur = <<from>>], out))
           ELSE Continue([r |-> dfs_finish(dfs_new(v, from, to)), panic |-> FALSE])

\* One neighbour a taken from the innermost loop: an unvisited one is pushed
\* and inner_dfs is called on it.
DfsNext ==
    /\ run.alg = "dfs"
    /\ ~run.done
    /\ ~panicked
    /\ run.frames # <<>>
    /\ run.frames[Len(run.frames)].items # <<>>
    /\ LET top == Len(run.frames)
           a == Head(run.frames[top].items)
           r1 == [run EXCEPT !.frames[top].items = Tail(@)]
       IN IF a \notin run.visited
          THEN \E out \in iter_adj(backend, graph, a) :
                  Continue(inner_dfs([r1 EXCEPT !.cur = Append(@, a)], out))
          ELSE Continue([r |-> r1, panic |-> FALSE])

\* The innermost loop has no neighbour left: the iterator ends (or panics on
\* its next element) and the call returns false.
DfsReturn ==
    /\ run.alg = "dfs"
    /\ ~run.done
    /\ ~panicked
    /\ run.frames # <<>>
    /\ run.frames[Len(run.frames)].items = <<>>
    /\ LET top == Len(run.frames)
           r1 == [run EXCEPT !.frames = SubSeq(@, 1, top - 1)]
       IN IF run.frames[top].panic THEN Continue([r |-> run, panic |-> TRUE])
          ELSE Continue([r |-> dfs_return_false(r1), panic |-> FALSE])

DfsNextAction == BuildNode \/ BuildEdge \/ DfsRun \/ DfsNext \/ DfsReturn

DfsSpec == Init /\ [][DfsNextAction]_vars

\* --------------------------------------------------------------- Dijkstra
\* std::u32::MAX, the cost of a node no path has reached yet.  TLC's integers
\* end at 2^31 - 1, so the cost type is kept one bit narrower than u32; its
\* greatest value stays out of reach of every path length.
U32_MAX == 2147483646

\* preds maps a node to (its predecessor, its cost); heap is the bag of the
\* NodeWithDist entries <<node, cost>> pushed and not yet popped; pc tells
\* whether the main loop is still running.
dijkstra_new(v, from, to, preds, heap) ==
    [alg |-> "dijkstra", variant |-> v, from |-> from, to |-> to,
     preds |-> preds, heap |-> heap, pc |-> "loop",
     done |-> FALSE, result |-> None]

heap_push(heap, node, cost) == heap (+) SetToBag({<<node, cost>>})

\* The first loop: every node yielded by iter_nodes is pushed and recorded.
RECURSIVE dijkstra_init(_, _, _)
dijkstra_init(from, items, r) ==
    IF items = <<>> THEN r
    ELSE LET node == Head(items)
             cost == IF node = from THEN 0 ELSE U32_MAX
         IN dijkstra_init(from, Tail(items),
                          [preds |-> MapPut(r.preds, node, [pred |-> None,
                                                            dist |-> cost]),
                           heap |-> heap_push(r.heap, node, cost)])

\* A pop under an Ord that is not reversed: an entry of greatest cost.
heap_pop_Greatest(heap, v) ==
    LET es == BagToSet(heap)
    IN {e \in es : \A o \in es : e[2] >= o[2]}

\* The entries BinaryHeap::pop may return: one of least cost.  Ord of
\* rust_graph_lib compares the cost only, so that any of them may come; Ord of
\* src/src/utils.rs ranks the greater node first among equal costs.
heap_pop(heap, v) ==
    LET es == BagToSet(heap)
        least == {e \in es : \A o \in es : e[2] <= o[2]}
    IN IF v = "utils" THEN {e \in least : \A o \in least : o[1] <= e[1]}
       ELSE least

\* node_dist + 1 on u32
u32_inc_panics(a) == a + 1 > U32_MAX /\ overflow_checks
u32_inc(a) == (a + 1) % (U32_MAX + 1)

\* The loop over the neighbours of the popped node.
RECURSIVE relax(_, _, _)
relax(r, node, items) ==
    IF items = <<>> THEN [r |-> r, panic |-> FALSE]
    ELSE LET adj == Head(items)
         IN IF node \notin DOMAIN r.preds \/ adj \notin DOMAIN r.preds
            THEN [r |-> r, panic |-> TRUE]
            ELSE LET node_dist == r.preds[node].dist
                     adj_dist == r.preds[adj].dist
                     alt == u32_inc(node_dist)
                 IN IF u32_inc_panics(node_dist) THEN [r |-> r, panic |-> TRUE]
                    ELSE IF alt < adj_dist
                    THEN relax([r EXCEPT !.preds[adj] = [pred |-> Some(node),
                                                         dist |-> alt],
                                         !.heap = heap_push(@, adj, alt)],
                               node, Tail(items))
                    ELSE relax(r, node, Tail(items))

\* The last loop: from cur back to from along the predecessors; ret is in the
\* order of the pushes.
RECURSIVE walk_back(_, _, _)
walk_back(r, cur, ret) ==
    IF cur = r.from THEN [ret |-> Append(ret, r.from), panic |-> FALSE]
    ELSE IF cur \notin DOMAIN r.preds \/ ~is_some(r.preds[cur].pred)
    THEN [ret |-> Append(ret, cur), panic |-> TRUE]
    ELSE walk_back(r, unwrap(r.preds[cur].pred), Append(ret, cur))

reverse(s) == [k \in 1..Len(s) |-> s[Len(s) + 1 - k]]

\* The test after the main loop with a source equal to the target exempted.
not_found_path_Exempt(r) ==
    (r.to \notin DOMAIN r.preds \/ ~is_some(r.preds[r.to].pred)) /\ r.to # r.from

\* The test made after the main loop.
not_found_path(r) == r.to \notin DOMAIN r.preds \/ ~is_some(r.preds[r.to].pred)

\* run(from, to) / dijkstra(g, from, to) up to the main loop.  The first loop
\* depends on from alone.
DijkstraRun ==
    /\ run = NoRun
    /\ ~panicked
    /\ LET outs == iter_nodes(backend, graph)
       IN \E from \in AlgNodes :
             LET first == {[r |-> dijkstra_init(from, out.items,
                                               [preds |-> EmptyMap, heap |-> EmptyBag]),
                            panic |-> out.panic] : out \in outs}
             IN \E v \in Variants, to \in AlgNodes, x \in first :
                   /\ Compiles(v, backend)
                   /\ Continue([r |-> dijkstra_new(v, from, to, x.r.preds, x.r.heap),
                                panic |-> x.panic])

\* One turn of the main loop: pop, test for the end, relax the neighbours.
\* The heap is not read after a break; it is left empty then.
DijkstraStep ==
    /\ run.alg = "dijkstra"
    /\ run.pc = "loop"
    /\ ~panicked
    /\ IF run.heap = EmptyBag
       THEN Continue([r |-> [run EXCEPT !.pc = "after_loop"], panic |-> FALSE])
       ELSE \E e \in heap_pop(run.heap, run.variant) :
               LET node == e[1]
                   cost == e[2]
                   r1 == [run EXCEPT !.heap = @ (-) SetToBag({e})]
               IN IF cost = U32_MAX \/ node = run.to
                  THEN Continue([r |-> [r1 EXCEPT !.pc = "after_loop",
                                                  !.heap = EmptyBag],
                                 panic |-> FALSE])
                  ELSE \E out \in iter_adj(backend, graph, node) :
                          IF ~out.some /\ (out.panic \/ run.variant = "utils")
                          THEN Continue([r |-> r1, panic |-> TRUE])
                          ELSE LET x == relax(r1, node, out.items)
                               IN Continue([r |-> x.r, panic |-> x.panic \/ out.panic])

\* After the main loop: None, or the path rebuilt from the predecessors.
DijkstraReturn ==
    /\ run.alg = "dijkstra"
    /\ run.pc = "after_loop"
    /\ ~run.done
    /\ ~panicked
    /\ IF not_found_path(run)
       THEN Continue([r |-> [run EXCEPT !.done = TRUE, !.result = None],
                      panic |-> FALSE])
       ELSE LET w == walk_back(run, run.to, <<>>)
            IN IF w.panic THEN Continue([r |-> run, panic |-> TRUE])
               ELSE Continue([r |-> [run EXCEPT !.done = TRUE,
                                                !.result = Some(reverse(w.ret))],
                              panic |-> FALSE])

DijkstraNextAction ==
    BuildNode \/ BuildEdge \/ DijkstraRun \/ DijkstraStep \/ DijkstraReturn

DijkstraSpec == Init /\ [][DijkstraNextAction]_vars

\* ------------------------------------------------- claims on the searches
\* The graph as has_node and has_edge show it.
Registered(n) == has_node(backend, graph, n)
Edge(f, t) == has_edge(backend, graph, f, t)

\* Nodes that a directed path of at most k edges reaches from s.
RECURSIVE ReachIn(_, _)
ReachIn(s, k) ==
    IF k = 0 THEN {s}
    ELSE LET p == ReachIn(s, k - 1)
         IN p \cup {t \in AlgNodes : \E u \in p : Edge(u, t)}

Reachable(s, t) == t \in ReachIn(s, PathNodes)

\* The least number of edges of a directed path from s to a reachable t.
Distance(s, t) == CHOOSE k \in 0..PathNodes :
                     t \in ReachIn(s, k) /\ \A j \in 0..(k - 1) : t \notin ReachIn(s, j)

\* p is a directed path of the graph.
IsPath(p) == \A i \in 1..(Len(p) - 1) : Edge(p[i], p[i + 1])

Returned(alg) == run.alg = alg /\ run.done /\ ~panicked
ReturnedPath(alg) == Returned(alg) /\ is_some(run.result)

\* C14: for registered source and target with source # target, a path that
\* Dijkstra returns has the least number of edges among the directed paths
\* from source to target in the graph, whatever the iteration orders and the
\* heap's choice among equal costs.
C14_DijkstraShortest ==
    (/\ ReturnedPath("dijkstra")
     /\ Registered(run.from) /\ Registered(run.to) /\ run.from # run.to) =>
        /\ Reachable(run.from, run.to)
        /\ Len(unwrap(run.result)) - 1 = Distance(run.from, run.to)

\* p leads from s to t over at least one edge of the graph without passing a
\* node twice.
SimplePathFromTo(p, s, t) ==
    /\ Len(p) >= 2
    /\ p[1] = s
    /\ p[Len(p)] = t
    /\ NoRepeat(p)
    /\ IsPath(p)

\* C15: a path that Dijkstra returns starts at source, ends at target, has at
\* least 2 nodes, repeats no node, and each of its consecutive pairs is an
\* edge of the graph.
C15_DijkstraPath ==
    ReturnedPath("dijkstra") => SimplePathFromTo(unwrap(run.result), run.from, run.to)

\* A directed path of at least one edge leads from s to t.
Connected(s, t) == \E u \in AlgNodes : Edge(s, u) /\ Reachable(u, t)

\* The cases in which a search is to return None, and a path.
AbsentCase(s, t) == ~Registered(s) \/ ~Registered(t) \/ ~Connected(s, t)
PathCase(s, t) == Registered(s) /\ Registered(t) /\ s # t /\ Reachable(s, t)

\* C16: Dijkstra does not fail and returns None when source or target is not
\* registered or no directed path leads from source to target, and it returns
\* a path when both are registered, differ, and target is reachable.
C16_DijkstraAbsent ==
    run.alg = "dijkstra" =>
        /\ (AbsentCase(run.from, run.to) \/ PathCase(run.from, run.to)) => ~panicked
        /\ (run.done /\ AbsentCase(run.from, run.to)) => run.result = None
        /\ (run.done /\ PathCase(run.from, run.to)) => is_some(run.result)

\* preds holds no predecessor for t: no entry, or an entry with None.
NoPredecessor(t) == t \notin DOMAIN run.preds \/ run.preds[t].pred = None

\* p is the chain of predecessor links from run.to back to run.from, reversed.
FollowsPreds(p) ==
    /\ Len(p) >= 1
    /\ p[1] = run.from
    /\ p[Len(p)] = run.to
    /\ \A i \in 1..(Len(p) - 1) :
          p[i + 1] \in DOMAIN run.preds /\ run.preds[p[i + 1]].pred = Some(p[i])

\* C17 as stated: after the main loop Dijkstra returns None only if target's
\* predecessor is none and target # source; otherwise, a registered target
\* equal to source included, it returns the path rebuilt from the predecessor
\* links.
C17_Original ==
    Returned("dijkstra") =>
        IF NoPredecessor(run.to) /\ run.to # run.from THEN run.result = None
        ELSE Registered(run.to) =>
                 (is_some(run.result) /\ FollowsPreds(unwrap(run.result)))

\* C17: once the main loop has ended Dijkstra does not fail; it returns None
\* exactly if target has no predecessor, which is the case whenever target
\* equals source, and otherwise it returns the path rebuilt from the
\* predecessor links from target back to source.
C17_DijkstraReturn ==
    (run.alg = "dijkstra" /\ run.pc = "after_loop") =>
        /\ ~panicked
        /\ run.to = run.from => NoPredecessor(run.to)
        /\ run.done =>
              IF NoPredecessor(run.to) THEN run.result = None
              ELSE is_some(run.result) /\ FollowsPreds(unwrap(run.result))

\* Dijkstra has returned None for a registered node with a self-loop given as
\* source and as target.
C17_Witness ==
    /\ Returned("dijkstra")
    /\ run.to = run.from
    /\ Registered(run.from)
    /\ Edge(run.from, run.from)
    /\ run.result = None

\* C18: a path that DFS returns starts at source, ends at target, has at least
\* 2 nodes, repeats no node, and each of its consecutive pairs is an edge of
\* the graph, whatever the order of the neighbours; with source equal to
\* target DFS returns None, also when a self-loop or a cycle passes that node.
C18_DfsPath ==
    /\ ReturnedPath("dfs") => SimplePathFromTo(unwrap(run.result), run.from, run.to)
    /\ (Returned("dfs") /\ run.from = run.to) => run.result = None

\* C19: DFS returns a path exactly if source and target are registered,
\* differ, and target is reachable from source by a directed path; in every
\* other case it returns None, and in no case does it fail.
C19_DfsIff ==
    run.alg = "dfs" =>
        /\ ~panicked
        /\ run.done => (is_some(run.result) <=> PathCase(run.from, run.to))

\* What a DFS has left to do: the nodes not yet expanded weigh more than all
\* the neighbours waiting in the open loops and the open calls together.
DfsRank(r) ==
    LET waiting == [k \in DOMAIN r.frames |-> Len(r.frames[k].items) + 1]
        RECURSIVE Sum(_)
        Sum(q) == IF q = <<>> THEN 0 ELSE Head(q) + Sum(Tail(q))
    IN Cardinality(AlgNodes \ r.visited) * (PathNodes * (PathNodes + 1) + 1)
         + Sum(waiting)

\* C20: DFS terminates on every finite graph, cycles and self-loops included.
\* During a run no node is expanded twice and the stack never holds a node
\* twice; a run that has neither returned nor panicked can take a step, and
\* every step lowers what is left to do unless it is a panic, which ends the
\* run at once.
C20_DfsTerminates ==
    /\ [](run.alg = "dfs" =>
            /\ NoRepeat(run.expanded)
            /\ NoRepeat(run.cur)
            /\ (~run.done /\ ~panicked) => ENABLED (DfsNext \/ DfsReturn))
    /\ [][(run.alg = "dfs" /\ run'.alg = "dfs") =>
              (DfsRank(run') < DfsRank(run) \/ (panicked' /\ run' = run))]_vars

\* A DFS has returned None after expanding a node with a self-loop and two
\* nodes that lie on a cycle.
C20_Witness ==
    /\ Returned("dfs")
    /\ run.result = None
    /\ \E n \in Range(run.expanded) : Edge(n, n)
    /\ \E a, b \in Range(run.expanded) : a # b /\ Edge(a, b) /\ Edge(b, a)


\* -------------------------------------------------------- registry client
\* A client of DoubleMapping alone.  Objects are 1..NumObjs; the client stops
\* inserting once from_index holds MaxIds slots, and asks for the ids
\* 0..MaxIds + 1.
NumObjs == 3
MaxIds == 3

Objs == 1..NumObjs
Ids == 0..(MaxIds + 1)

\* DoubleMapping::default() is new(false), the sparse discipline; new(true) is
\* the compacting one.
MappingInit ==
    /\ mapping \in {DoubleMapping_new(a) : a \in BOOLEAN}
    /\ history = NoHistory
    /\ panicked = FALSE
    /\ overflow_checks \in BOOLEAN
    /\ call = [op |-> "new", arg |-> 0, ret |-> None]
    /\ backend = "none"
    /\ graph = <<>>
    /\ run = NoRun
    /\ trio = NoTrio

Insert ==
    \E obj \in Objs :
        /\ ~panicked
        /\ Len(mapping.from_index) < MaxIds
        /\ LET r == DoubleMapping_insert(mapping, obj)
           IN /\ mapping' = r.m
              /\ call' = [op |-> "insert", arg |-> obj, ret |-> r.id]
              /\ history' = [history EXCEPT !.issued = @ \cup Range(r.id)]
        /\ UNCHANGED <<backend, graph, panicked, overflow_checks, run, trio>>

Remove ==
    \E id \in Ids :
        /\ ~panicked
        /\ LET r == DoubleMapping_remove(mapping, id)
           IN /\ mapping' = r.m
              /\ panicked' = r.panic
              /\ call' = [op |-> "remove", arg |-> id, ret |-> r.ret]
              /\ history' = [history EXCEPT
                               !.removed = IF is_some(r.ret) THEN @ \cup {id} ELSE @]
        /\ UNCHANGED <<backend, graph, overflow_checks, run, trio>>

GetById ==
    \E id \in Ids :
        /\ ~panicked
        /\ panicked' = DoubleMapping_get_by_id_panics(mapping, id)
        /\ call' = [op |-> "get_by_id", arg |-> id,
                    ret |-> IF panicked' THEN None
                            ELSE DoubleMapping_get_by_id(mapping, id)]
        /\ UNCHANGED <<backend, graph, overflow_checks, run, mapping, history,
                       trio>>

ContainsId ==
    \E id \in Ids :
        /\ ~panicked
        /\ panicked' = DoubleMapping_get_by_id_panics(mapping, id)
        /\ call' = [op |-> "contains_id", arg |-> id,
                    ret |-> IF panicked' THEN None
                            ELSE Some(DoubleMapping_contains_id(mapping, id))]
        /\ UNCHANGED <<backend, graph, overflow_checks, run, mapping, history,
                       trio>>

MappingNext == Insert \/ Remove \/ GetById \/ ContainsId

MappingSpec == MappingInit /\ [][MappingNext]_vars

\* ------------------------------------------------- claims on the registry
\* Ids that can be asked for or are stored in the reverse index.
KnownIds(m) == Ids \cup {m.to_index[o] : o \in DOMAIN m.to_index}

\* C21: in every state reached by insert and remove calls, sparse or
\* compacting, get_by_obj(o) = Some(i) exactly when get_by_id(i) = Some(o);
\* so a live id names one live object and a live object has one id.
C21_TwoWay ==
    \A o \in Objs, i \in KnownIds(mapping) :
        DoubleMapping_get_by_obj(mapping, o) = Some(i)
            <=> DoubleMapping_get_by_id(mapping, i) = Some(o)

\* A compacting registry after a remove that shifted a later object down, and
\* an insert after it.
C21_Witness ==
    /\ mapping.autodecrement
    /\ call.op = "insert"
    /\ is_some(call.ret)
    /\ history.removed # {}
    /\ Cardinality(DOMAIN mapping.to_index) >= 2
    /\ \E i \in history.removed : i < unwrap(call.ret)

\* C22: insert(obj) for an object already registered returns None and leaves
\* the registry as it was: the object keeps its id, no id is consumed, and a
\* fresh object inserted next gets the id it would have got without the
\* duplicate insert.
C22_InsertDuplicate ==
    /\ [](\A o \in DOMAIN mapping.to_index, fresh \in Objs \ DOMAIN mapping.to_index :
             LET dup == DoubleMapping_insert(mapping, o)
             IN /\ dup.id = None
                /\ DoubleMapping_get_by_obj(dup.m, o)
                     = DoubleMapping_get_by_obj(mapping, o)
                /\ DoubleMapping_insert(dup.m, fresh).id
                     = DoubleMapping_insert(mapping, fresh).id)
    /\ [][(call'.op = "insert" /\ call'.arg \in DOMAIN mapping.to_index) =>
             /\ call'.ret = None
             /\ mapping' = mapping
             /\ ~panicked']_vars

\* A duplicate insert has been made while a fresh object could still be added.
C22_Witness ==
    /\ call.op = "insert"
    /\ call.ret = None
    /\ call.arg \in DOMAIN mapping.to_index
    /\ Objs \ DOMAIN mapping.to_index # {}
    /\ Len(mapping.from_index) < MaxIds

\* C23: under the sparse discipline the first successful insert returns 1,
\* every later successful insert returns an id above every id returned
\* before, and a removed id is neither returned by a later insert nor resolved
\* by get_by_id, whatever the interleaving of insert and remove.
C23_SparseIds ==
    /\ [](~mapping.autodecrement =>
             \A i \in history.removed :
                 DoubleMapping_get_by_id(mapping, i) = None)
    /\ [][(~mapping.autodecrement /\ call'.op = "insert" /\ is_some(call'.ret)) =>
             /\ history.issued = {} => unwrap(call'.ret) = 1
             /\ \A i \in history.issued : unwrap(call'.ret) > i
             /\ unwrap(call'.ret) \notin history.removed]_vars

\* A sparse registry that has handed out a third id after a removal.
C23_Witness ==
    /\ ~mapping.autodecrement
    /\ call.op = "insert"
    /\ is_some(call.ret)
    /\ unwrap(call.ret) >= 3
    /\ history.removed # {}
    /\ history.issued = 1..unwrap(call.ret)

\* C24: under the sparse discipline remove(id) of a live id returns the
\* object the id named, makes get_by_id(id) and get_by_obj of that object
\* absent, and leaves get_by_id(j) for every other id j and get_by_obj(o) for
\* every other object o as they were.
C24_SparseRemove ==
    [][(/\ ~mapping.autodecrement
        /\ call'.op = "remove"
        /\ DoubleMapping_contains_id(mapping, call'.arg)) =>
          LET id == call'.arg
              obj == DoubleMapping_get_by_id(mapping, id)
          IN /\ ~panicked'
             /\ call'.ret = obj
             /\ DoubleMapping_get_by_id(mapping', id) = None
             /\ DoubleMapping_get_by_obj(mapping', unwrap(obj)) = None
             /\ \A j \in (KnownIds(mapping) \cup KnownIds(mapping')) \ {id} :
                   DoubleMapping_get_by_id(mapping', j)
                     = DoubleMapping_get_by_id(mapping, j)
             /\ \A o \in Objs \ {unwrap(obj)} :
                   DoubleMapping_get_by_obj(mapping', o)
                     = DoubleMapping_get_by_obj(mapping, o)]_vars

\* A sparse remove of an id that has a live id below it and one above it.
C24_Witness ==
    /\ ~mapping.autodecrement
    /\ call.op = "remove"
    /\ is_some(call.ret)
    /\ \E o1, o2 \in DOMAIN mapping.to_index :
          mapping.to_index[o1] < call.arg /\ call.arg < mapping.to_index[o2]

\* C25: under the compacting discipline remove(id) of a live id returns the
\* object the id named; afterwards every object whose id was j > id has id
\* j - 1 in get_by_obj and in get_by_id, every object whose id was below id
\* keeps it, and the live ids are exactly 1..n for n live objects.
C25_CompactRemove ==
    [][(/\ mapping.autodecrement
        /\ call'.op = "remove"
        /\ DoubleMapping_contains_id(mapping, call'.arg)) =>
          LET id == call'.arg
              obj == DoubleMapping_get_by_id(mapping, id)
              live == {i \in KnownIds(mapping') :
                          DoubleMapping_contains_id(mapping', i)}
          IN /\ ~panicked'
             /\ call'.ret = obj
             /\ DoubleMapping_get_by_obj(mapping', unwrap(obj)) = None
             /\ \A o \in DOMAIN mapping.to_index \ {unwrap(obj)} :
                   LET j == mapping.to_index[o]
                       k == IF j > id THEN j - 1 ELSE j
                   IN /\ DoubleMapping_get_by_obj(mapping', o) = Some(k)
                      /\ DoubleMapping_get_by_id(mapping', k) = Some(o)
             /\ live = 1..Cardinality(DOMAIN mapping'.to_index)]_vars

\* A compacting remove of an id that had a live id below it and one above it.
C25_Witness ==
    /\ mapping.autodecrement
    /\ call.op = "remove"
    /\ is_some(call.ret)
    /\ \E o1, o2 \in DOMAIN mapping.to_index :
          mapping.to_index[o1] < call.arg /\ call.arg <= mapping.to_index[o2]

\* C26: remove(id) for an id that is not live (never assigned, 0 and values
\* above the largest id included, or already removed) returns None without
\* failing and leaves the registry as it was; get_by_id and contains_id on
\* such an id return None and false without failing.
C26_AbsentId ==
    [][(/\ call'.op \in {"remove", "get_by_id", "contains_id"}
        /\ ~DoubleMapping_contains_id(mapping, call'.arg)) =>
          /\ ~panicked'
          /\ mapping' = mapping
          /\ call'.ret = IF call'.op = "contains_id" THEN Some(FALSE) ELSE None]_vars

\* --------------------------------------------- the backends side by side
\* One graph per backend, each created empty; every call is made with the
\* same arguments on all three.  The client stops once a call has panicked
\* on some backend, and keeps to MaxSlots and MaxEdges on every backend.
TrioInit ==
    /\ trio = [b \in Backends |-> Ok(new(b))]
    /\ panicked = FALSE
    /\ overflow_checks \in BOOLEAN
    /\ call = [op |-> "new", f |-> 0, t |-> 0]
    /\ backend = "all"
    /\ graph = <<>>
    /\ run = NoRun
    /\ mapping = DoubleMapping_new(FALSE)
    /\ history = NoHistory

AllReturn(op, f, t, rs) ==
    /\ trio' = rs
    /\ panicked' = \E b \in Backends : rs[b].panic
    /\ call' = [op |-> op, f |-> f, t |-> t]
    /\ UNCHANGED <<backend, graph, overflow_checks, run, mapping, history>>

AllAddNode ==
    \E n \in Nodes :
        /\ ~panicked
        /\ \A b \in Backends : Slots(b, trio[b].g) < MaxSlots
        /\ AllReturn("add_node", n, n,
                     [b \in Backends |-> add_node(b, trio[b].g, n)])

AllAddEdge ==
    \E f \in Nodes, t \in Nodes :
        /\ ~panicked
        /\ \A b \in Backends :
              /\ Slots(b, trio[b].g)
                   + Cardinality({n \in {f, t} : ~has_node(b, trio[b].g, n)})
                   <= MaxSlots
              /\ edge_count(b, trio[b].g) < MaxEdges
        /\ AllReturn("add_edge", f, t,
                     [b \in Backends |-> add_edge(b, trio[b].g, f, t)])

AllRemoveNode ==
    \E n \in Nodes :
        /\ ~panicked
        /\ AllReturn("remove_node", n, n,
                     [b \in Backends |-> remove_node(b, trio[b].g, n)])

AllRemoveEdge ==
    \E f \in Nodes, t \in Nodes :
        /\ ~panicked
        /\ AllReturn("remove_edge", f, t,
                     [b \in Backends |-> remove_edge(b, trio[b].g, f, t)])

TrioNext == AllAddNode \/ AllAddEdge \/ AllRemoveNode \/ AllRemoveEdge

TrioSpec == TrioInit /\ [][TrioNext]_vars

\* --------------------------------------------- claims on the three at once
\* What a caller can observe of one backend's graph after a call.
Observable(b) ==
    [completed |-> ~trio[b].panic,
     nodes |-> NodeSet(b, trio[b].g),
     edges |-> EdgeSet(b, trio[b].g),
     node_count |-> node_count(b, trio[b].g),
     edge_count |-> edge_count(b, trio[b].g)]

\* C27: after every step of one sequence of add_node, add_edge, remove_node
\* and remove_edge calls applied to an empty graph of each backend, the three
\* agree on has_node, has_edge, node_count, edge_count and on whether the
\* call completed.
C27_Equivalent ==
    \A b1, b2 \in Backends : Observable(b1) = Observable(b2)

\* -------------------------------------- further claims on a single backend
\* C28: in every backend remove_node(n) changes nothing that does not involve
\* n: has_node(a) and has_edge(a, b) keep their values for all a, b other
\* than n, also when n is not the node registered last, and when n is added
\* again later it has no edges.
C28_RemoveNodeFrame ==
    /\ [][call'.op = "remove_node" =>
            /\ ~panicked'
            /\ \A a \in Nodes \ {call'.f} :
                  /\ has_node(backend, graph', a) = has_node(backend, graph, a)
                  /\ \A b \in Nodes \ {call'.f} :
                        has_edge(backend, graph', a, b)
                          = has_edge(backend, graph, a, b)]_vars
    /\ [][(/\ call'.op = "add_node"
           /\ ~call'.had_f \/ (call.op = "remove_node" /\ call.f = call'.f)) =>
            /\ ~panicked'
            /\ \A x \in Nodes :
                  /\ ~has_edge(backend, graph', call'.f, x)
                  /\ ~has_edge(backend, graph', x, call'.f)]_vars

\* An IncMatrixGraph after remove_node of a node that was not the one
\* registered last, while a later node keeps an edge.
C28_Witness ==
    /\ backend = "IncMatrixGraph"
    /\ call.op = "remove_node"
    /\ call.had_f
    /\ ~call.was_last
    /\ ~panicked
    /\ \E a \in Nodes \ {call.f} : has_edge(backend, graph, a, a)

\* Ids of the registry that resolve to an object.
LiveIds(m) == {i \in 1..Len(m.from_index) : DoubleMapping_contains_id(m, i)}

\* C29: in every state of IncMatrixGraph reached by calls that complete, the
\* matrix is square with one row per live registry id, the live ids are
\* exactly 1..node_count(), the node with id i has row and column i - 1, and
\* so no has_edge, add_edge, remove_edge or remove_node call indexes the
\* matrix out of bounds.
C29_IncMatrixShape ==
    (backend = "IncMatrixGraph" /\ ~panicked) =>
        LET m == graph.identifiers
            n == Cardinality(LiveIds(m))
        IN /\ Len(graph.matrix) = n
           /\ \A k \in 1..Len(graph.matrix) : Len(graph.matrix[k]) = n
           /\ LiveIds(m) = 1..IncMatrixGraph_node_count(graph)
           /\ {m.to_index[o] : o \in DOMAIN m.to_index} = LiveIds(m)
           /\ \A f \in Nodes, t \in Nodes :
                 /\ ~IncMatrixGraph_has_edge_panics(graph, f, t)
                 /\ ~IncMatrixGraph_add_edge(graph, f, t).panic
                 /\ ~IncMatrixGraph_remove_edge(graph, f, t).panic
                 /\ ~IncMatrixGraph_remove_node(graph, f).panic
                 /\ (IncMatrixGraph_has_node(graph, f)
                       /\ IncMatrixGraph_has_node(graph, t)) =>
                      matrix_in_bounds(graph.matrix, m.to_index[f] - 1,
                                       m.to_index[t] - 1)

\* An IncMatrixGraph of one node with a self-loop, left by the removal of a
\* node registered before it.
C29_Witness ==
    /\ backend = "IncMatrixGraph"
    /\ ~panicked
    /\ call.op = "remove_node"
    /\ call.had_f
    /\ ~call.was_last
    /\ Len(graph.matrix) = 1
    /\ graph.edge_count = 1

\* C30: in every state of AdjListGraph reached by add_node, add_edge,
\* remove_node and remove_edge calls, the keys of the adjacency map are the
\* live registry ids and every id in a neighbour set is a live registry id;
\* so the lookups by id in iter_nodes, iter_adj (of a registered node) and
\* iter_edges never fail.
C30_AdjListIds ==
    backend = "AdjListGraph" =>
        LET live == LiveIds(graph.identifiers)
        IN /\ DOMAIN graph.edges = live
           /\ \A k \in DOMAIN graph.edges : graph.edges[k] \subseteq live
           /\ \A out \in AdjListGraph_iter_nodes(graph) : ~out.panic
           /\ \A out \in AdjListGraph_iter_edges(graph) : ~out.panic
           /\ \A n \in Nodes :
                 AdjListGraph_has_node(graph, n) =>
                    \A out \in AdjListGraph_iter_adj(graph, n) :
                        out.some /\ ~out.panic

\* An AdjListGraph in which the removal of an earlier node has left a gap in
\* the ids and a later node keeps an edge.
C30_Witness ==
    /\ backend = "AdjListGraph"
    /\ call.op = "remove_node"
    /\ call.had_f
    /\ ~call.was_last
    /\ \E k \in DOMAIN graph.edges :
          /\ graph.edges[k] # {}
          /\ \E i \in 1..(k - 1) : i \notin LiveIds(graph.identifiers)

\* ---------------------------------------------- both searches on one graph
\* A client that builds a graph, runs the depth-first search between two
\* registered nodes, keeps what it returned and then runs Dijkstra between
\* the same two nodes of the same graph.
BothDfsRun ==
    \E v \in Variants, from \in AlgNodes, to \in AlgNodes :
        /\ run = NoRun
        /\ ~panicked
        /\ Compiles(v, backend)
        /\ from # to
        /\ has_node(backend, graph, from)
        /\ has_node(backend, graph, to)
        /\ \E out \in iter_adj(backend, graph, from) :
              Continue(inner_dfs([dfs_new(v, from, to) EXCEPT !.cur = <<from>>], out))

BothDijkstraRun ==
    /\ run.alg = "dfs"
    /\ run.done
    /\ ~panicked
    /\ \E out \in iter_nodes(backend, graph) :
          LET x == dijkstra_init(run.from, out.items,
                                 [preds |-> EmptyMap, heap |-> EmptyBag])
          IN /\ run' = dijkstra_new(run.variant, run.from, run.to, x.preds, x.heap)
             /\ panicked' = out.panic
    /\ call' = [op |-> "dfs", f |-> run.from, t |-> run.to, ret |-> run.result]
    /\ UNCHANGED <<backend, graph, overflow_checks, mapping, history, trio>>

BothNext ==
    \/ BuildNode
    \/ BuildEdge
    \/ BothDfsRun
    \/ DfsNext
    \/ DfsReturn
    \/ BothDijkstraRun
    \/ DijkstraStep
    \/ DijkstraReturn

BothSpec == Init /\ [][BothNext]_vars

\* ------------------------------------------- claims on the two searches
\* The Dijkstra run that followed the depth-first search has ended, by a
\* return or by a panic.
BothEnded == run.alg = "dijkstra" /\ call.op = "dfs" /\ (run.done \/ panicked)

NextPops ==
    IF run.alg = "dijkstra" /\ run.pc = "loop" /\ ~panicked
    THEN heap_pop(run.heap, run.variant)
    ELSE {}

\* C32: Dijkstra never computes `recorded distance + 1` for a node whose
\* recorded distance is u32::MAX, so the addition does not overflow: an entry
\* of cost u32::MAX is popped only when no entry of finite cost is left in
\* the heap, the loop stops at that pop, and every finite recorded distance
\* is smaller than the number of nodes.
C32_NoOverflow ==
    /\ [](run.alg = "dijkstra" =>
            /\ \A e \in NextPops :
                  /\ (e[2] # U32_MAX /\ e[1] # run.to) =>
                        /\ e[1] \in DOMAIN run.preds
                        /\ run.preds[e[1]].dist # U32_MAX
                        /\ run.preds[e[1]].dist + 1 <= U32_MAX
                  /\ e[2] = U32_MAX =>
                        \A o \in BagToSet(run.heap) : o[2] = U32_MAX
            /\ \A n \in DOMAIN run.preds :
                  run.preds[n].dist # U32_MAX =>
                     run.preds[n].dist < node_count(backend, graph))
    /\ [][(NextPops # {} /\ \A e \in NextPops : e[2] = U32_MAX) =>
             /\ run'.pc = "after_loop"
             /\ run'.preds = run.preds
             /\ ~panicked']_vars

\* The main loop is about to pop an entry of cost u32::MAX: the entries of
\* finite cost are gone, a relaxation has recorded a distance, and an entry
\* that a relaxation made stale is still in the heap.
C32_Witness ==
    /\ NextPops # {}
    /\ \A e \in NextPops : e[2] = U32_MAX
    /\ \E n \in DOMAIN run.preds :
          /\ run.preds[n].dist \in 1..PathNodes
          /\ <<n, U32_MAX>> \in BagToSet(run.heap)
    /\ \E n \in DOMAIN run.preds : run.preds[n].dist = U32_MAX
====
